---- MODULE Spec2Model ----
(***************************************************************************)
(* The ReAct agent loop of src/react_agent.py: ReActAgent.run, the action  *)
(* parser _parse_action, the completion call _call_llm and Tool.execute.   *)
(* Texts are TLA+ strings; the Python string methods the code uses are     *)
(* operators over them, computed character by character.                   *)
(***************************************************************************)
EXTENDS Integers, Sequences, FiniteSets, TLC

\* Largest max_iterations a run is started with (the attribute is set to 10
\* by the constructor and is a plain public attribute).
MaxBudget == 2

----------------------------------------------------------------------------
(* Python str methods *)

Ch(s, i) == IF 1 <= i /\ i <= Len(s) THEN SubSeq(s, i, i) ELSE ""

\* the characters str.strip() removes (within the alphabet of the model)
PyWhitespace == {" ", "\t", "\n", "\r", "\f"}

StartsWithAt(s, p, i) ==
  /\ i + Len(p) - 1 <= Len(s)
  /\ SubSeq(s, i, i + Len(p) - 1) = p

\* s.startswith(p)
StartsWith(s, p) == StartsWithAt(s, p, 1)

\* the least element of a non-empty set of positions
Least(S) == CHOOSE k \in S : \A m \in S : k <= m

LeastOr(S, default) == IF S = {} THEN default ELSE Least(S)

\* s.find(sub) from position i, 1-based; 0 when sub does not occur
FindFrom(s, sub, i) ==
  LeastOr({k \in i..(Len(s) - Len(sub) + 1) : StartsWithAt(s, sub, k)}, 0)

\* sub in s
Contains(s, sub) == FindFrom(s, sub, 1) # 0

\* s.rsplit(sep, 1)[1] in place of s.split(sep, 1)[1]
SplitLastAfter(s, sep) ==
  LET hits == {k \in 1..Len(s) : StartsWithAt(s, sep, k)}
      i == CHOOSE k \in hits : \A m \in hits : m <= k
  IN  SubSeq(s, i + Len(sep), Len(s))

\* s.split(sep, 1)[1], defined when sep occurs in s
SplitOnceAfter(s, sep) ==
  LET i == FindFrom(s, sep, 1)
  IN  SubSeq(s, i + Len(sep), Len(s))

\* first position at or after i whose character is not in chars
\* (Len(s) + 1 when there is none)
SkipChars(s, i, chars) ==
  LeastOr({k \in i..Len(s) : Ch(s, k) \notin chars}, Len(s) + 1)

\* s.strip(): from the first to the last character that is no whitespace
StripBetween(s, kept) ==
  IF kept = {} THEN ""
  ELSE SubSeq(s, Least(kept), CHOOSE k \in kept : \A m \in kept : m <= k)

Strip(s) == StripBetween(s, {k \in 1..Len(s) : Ch(s, k) \notin PyWhitespace})

\* s.split("\n"): the sequence of lines, never empty
RECURSIVE SplitLinesFrom(_, _)
SplitLinesFrom(s, i) ==
  LET k == FindFrom(s, "\n", i)
  IN  IF k = 0 THEN << (IF i > Len(s) THEN "" ELSE SubSeq(s, i, Len(s))) >>
      ELSE << (IF k = i THEN "" ELSE SubSeq(s, i, k - 1)) >>
             \o SplitLinesFrom(s, k + 1)

SplitLines(s) == SplitLinesFrom(s, 1)

\* s.replace(old, ""): every non-overlapping occurrence, left to right
RECURSIVE RemoveAllFrom(_, _, _)
RemoveAllFrom(s, old, i) ==
  LET k == FindFrom(s, old, i)
  IN  IF k = 0 THEN (IF i > Len(s) THEN "" ELSE SubSeq(s, i, Len(s)))
      ELSE (IF k = i THEN "" ELSE SubSeq(s, i, k - 1))
             \o RemoveAllFrom(s, old, k + Len(old))

RemoveAll(s, old) == RemoveAllFrom(s, old, 1)

----------------------------------------------------------------------------
(* Python values: None, str, int, float, bool, list, dict *)

PyNone == [t |-> "None"]
PyStr(s) == [t |-> "str", v |-> s]
PyInt(n) == [t |-> "int", v |-> n]
PyFloat(lexeme) == [t |-> "float", v |-> lexeme]
PyBool(b) == [t |-> "bool", v |-> b]
PyList(items) == [t |-> "list", v |-> items]
PyDict(f) == [t |-> "dict", v |-> f]
EmptyDict == PyDict(<<>>)

\* the keys of a dict's mapping
Keys(f) == IF DOMAIN f = {} THEN {} ELSE DOMAIN f

----------------------------------------------------------------------------
(* json.loads, as the standard decoder scans: a value, surrounded by        *)
(* optional whitespace, and nothing after it.  The alphabet of the model     *)
(* has no backslash, so string escapes do not arise.                         *)

JsonWs == {" ", "\t", "\n", "\r"}
Digits == {"0", "1", "2", "3", "4", "5", "6", "7", "8", "9"}

DigitVal(c) ==
  CASE c = "0" -> 0 [] c = "1" -> 1 [] c = "2" -> 2 [] c = "3" -> 3
    [] c = "4" -> 4 [] c = "5" -> 5 [] c = "6" -> 6 [] c = "7" -> 7
    [] c = "8" -> 8 [] c = "9" -> 9

\* WHITESPACE.match(s, i).end()
SkipWs(s, i) == SkipChars(s, i, JsonWs)

\* first position at or after i that holds no digit
SkipDigits(s, i) == SkipChars(s, i, Digits)

RECURSIVE DecimalValue(_, _, _, _)
DecimalValue(s, i, j, acc) ==
  IF i > j THEN acc ELSE DecimalValue(s, i + 1, j, 10 * acc + DigitVal(Ch(s, i)))

JsonFail == [ok |-> FALSE]
JsonOk(val, next) == [ok |-> TRUE, val |-> val, next |-> next]

\* a string whose opening quote is at i - 1, its closing quote at close
\* (0: there is none); a control character inside it is an error (strict
\* mode)
StringUpTo(s, i, close) ==
  IF close = 0 THEN JsonFail
  ELSE IF \E k \in i..(close - 1) : Ch(s, k) \in {"\t", "\n", "\r", "\f"}
    THEN JsonFail
  ELSE JsonOk(IF close = i THEN "" ELSE SubSeq(s, i, close - 1), close + 1)

\* py_scanstring(s, i)
ScanString(s, i) == StringUpTo(s, i, FindFrom(s, "\"", i))

\* NUMBER_RE: (-?(?:0|[1-9]\d*))(\.\d+)?([eE][-+]?\d+)?
ScanNumber(s, i) ==
  LET d == IF Ch(s, i) = "-" THEN i + 1 ELSE i
      intEnd == IF Ch(s, d) = "0" THEN d + 1 ELSE SkipDigits(s, d)
      fracEnd == IF Ch(s, intEnd) = "." /\ SkipDigits(s, intEnd + 1) > intEnd + 1
                 THEN SkipDigits(s, intEnd + 1) ELSE intEnd
      e == IF Ch(s, fracEnd + 1) \in {"+", "-"} THEN fracEnd + 2 ELSE fracEnd + 1
      expEnd == IF Ch(s, fracEnd) \in {"e", "E"} /\ SkipDigits(s, e) > e
                THEN SkipDigits(s, e) ELSE fracEnd
      magnitude == DecimalValue(s, d, intEnd - 1, 0)
  IN  IF intEnd = d THEN JsonFail
      ELSE IF expEnd > intEnd THEN JsonOk(PyFloat(SubSeq(s, i, expEnd - 1)), expEnd)
      ELSE JsonOk(PyInt(IF d > i THEN 0 - magnitude ELSE magnitude), intEnd)

RECURSIVE ScanOnce(_, _)

\* JSONArray: item is the scanned item, items the ones before it; then "]"
\* ends the array and "," leads to the next item
ArrayAfterItem(s, item, items) ==
  IF ~item.ok THEN JsonFail
  ELSE IF Ch(s, SkipWs(s, item.next)) = "]"
    THEN JsonOk(PyList(Append(items, item.val)), SkipWs(s, item.next) + 1)
  ELSE IF Ch(s, SkipWs(s, item.next)) = ","
    THEN [ok |-> TRUE, more |-> TRUE, items |-> Append(items, item.val),
          next |-> SkipWs(s, SkipWs(s, item.next) + 1)]
  ELSE JsonFail

\* JSONArray after "[" and whitespace, i at the first item
RECURSIVE ParseArray(_, _, _)
ArrayContinue(s, step) ==
  IF step.ok /\ "more" \in DOMAIN step
  THEN ParseArray(s, step.next, step.items)
  ELSE step

ParseArray(s, i, items) == ArrayContinue(s, ArrayAfterItem(s, ScanOnce(s, i), items))

\* JSONObject: key is the scanned key; ":" and the value must follow it
ObjectValue(s, key) ==
  IF ~key.ok THEN JsonFail
  ELSE IF Ch(s, SkipWs(s, key.next)) # ":" THEN JsonFail
  ELSE ScanOnce(s, SkipWs(s, SkipWs(s, key.next) + 1))

\* JSONObject: then "}" ends the object and "," leads to the next key; a
\* repeated key keeps its last value
ObjectAfterValue(s, key, value, pairs) ==
  IF ~value.ok THEN JsonFail
  ELSE IF Ch(s, SkipWs(s, value.next)) = "}"
    THEN JsonOk(PyDict((key.val :> value.val) @@ pairs), SkipWs(s, value.next) + 1)
  ELSE IF Ch(s, SkipWs(s, value.next)) = ","
    THEN [ok |-> TRUE, more |-> TRUE, pairs |-> (key.val :> value.val) @@ pairs,
          next |-> SkipWs(s, SkipWs(s, value.next) + 1)]
  ELSE JsonFail

ObjectAfterKey(s, key, pairs) ==
  ObjectAfterValue(s, key, ObjectValue(s, key), pairs)

\* JSONObject after "{" and whitespace, i at the first key
RECURSIVE ParseObject(_, _, _)
ObjectContinue(s, step) ==
  IF step.ok /\ "more" \in DOMAIN step
  THEN ParseObject(s, step.next, step.pairs)
  ELSE step

ParseObject(s, i, pairs) ==
  IF Ch(s, i) # "\"" THEN JsonFail
  ELSE ObjectContinue(s, ObjectAfterKey(s, ScanString(s, i + 1), pairs))

StringValue(r) == IF r.ok THEN JsonOk(PyStr(r.val), r.next) ELSE JsonFail

\* the literals the decoder accepts besides null, true, false and numbers
ScanConstant(s, i) ==
  IF StartsWithAt(s, "NaN", i) THEN JsonOk(PyFloat("nan"), i + 3)
  ELSE IF StartsWithAt(s, "Infinity", i) THEN JsonOk(PyFloat("inf"), i + 8)
  ELSE IF StartsWithAt(s, "-Infinity", i) THEN JsonOk(PyFloat("-inf"), i + 9)
  ELSE JsonFail

NumberOrConstant(s, i, number) == IF number.ok THEN number ELSE ScanConstant(s, i)

ObjectFrom(s, j) ==
  IF Ch(s, j) = "}" THEN JsonOk(EmptyDict, j + 1) ELSE ParseObject(s, j, <<>>)

ArrayFrom(s, j) ==
  IF Ch(s, j) = "]" THEN JsonOk(PyList(<<>>), j + 1) ELSE ParseArray(s, j, <<>>)

\* scan_once(string, idx): the value that starts exactly at i
ScanOnce(s, i) ==
  IF Ch(s, i) = "" THEN JsonFail
  ELSE IF Ch(s, i) = "\"" THEN StringValue(ScanString(s, i + 1))
  ELSE IF Ch(s, i) = "{" THEN ObjectFrom(s, SkipWs(s, i + 1))
  ELSE IF Ch(s, i) = "[" THEN ArrayFrom(s, SkipWs(s, i + 1))
  ELSE IF StartsWithAt(s, "null", i) THEN JsonOk(PyNone, i + 4)
  ELSE IF StartsWithAt(s, "true", i) THEN JsonOk(PyBool(TRUE), i + 4)
  ELSE IF StartsWithAt(s, "false", i) THEN JsonOk(PyBool(FALSE), i + 5)
  ELSE NumberOrConstant(s, i, ScanNumber(s, i))

\* the decoded value must be followed by whitespace only
WholeText(s, r) ==
  IF r.ok /\ SkipWs(s, r.next) = Len(s) + 1 THEN JsonOk(r.val, r.next) ELSE JsonFail

\* json.loads(s): [ok |-> TRUE, val |-> value], or [ok |-> FALSE] where the
\* code gets json.JSONDecodeError
JsonLoads(s) == WholeText(s, ScanOnce(s, SkipWs(s, 1)))

----------------------------------------------------------------------------
(* Tools *)

\* the capabilities _setup_tools defines, by their parameter lists
Signature(function) ==
  CASE function = "calculator" ->
         [required |-> {"expression"}, optional |-> {}]
    [] function = "get_current_time" ->
         [required |-> {}, optional |-> {"timezone"}]
    [] function = "get_weather" ->
         [required |-> {"latitude", "longitude"}, optional |-> {}]
    [] function = "search_arxiv" ->
         [required |-> {"query"}, optional |-> {"max_results"}]

\* Tool(name, description, function)
Tool(name, description, function) ==
  [name |-> name, description |-> description, function |-> function]

\* registration order of self.tools
ToolOrder == <<"calculator", "get_current_time", "get_weather", "search_arxiv">>

ToolDescription(name) ==
  CASE name = "calculator" ->
         "Evaluates mathematical expressions. Input: expression (string). Example: calculator(expression='2 + 2 * 5')"
    [] name = "get_current_time" ->
         "Returns current date and time. Input: timezone (optional, defaults to UTC). Example: get_current_time(timezone='UTC')"
    [] name = "get_weather" ->
         "Gets weather forecast from National Weather Service for US locations. Input: latitude (float), longitude (float). Example: get_weather(latitude=38.8894, longitude=-77.0352)"
    [] name = "search_arxiv" ->
         "Searches for research papers on arXiv. Input: query (string), max_results (optional, default 3). Example: search_arxiv(query='machine learning', max_results=3)"

\* self.tools after _setup_tools
SetupTools ==
  [n \in {ToolOrder[i] : i \in DOMAIN ToolOrder} |-> Tool(n, ToolDescription(n), n)]

\* whether function(**kwargs) binds: no unexpected keyword, none missing
Binds(function, kwargs) ==
  LET sig == Signature(function)
  IN  /\ Keys(kwargs) \subseteq sig.required \cup sig.optional
      /\ sig.required \subseteq Keys(kwargs)

\* What a capability called with bound arguments can do.  The concrete
\* evaluations (eval, the clock, the HTTP services) are outside the model:
\* a capability returns one of these texts or raises with one of these
\* messages.  Only calculator lets an exception out (it catches SyntaxError,
\* NameError and TypeError alone); the other three cannot raise once bound.
CapabilityReturns(function) ==
  CASE function = "calculator" ->
         {"The result of 2+2 is 4", "Error calculating 2+: invalid syntax"}
    [] function = "get_current_time" -> {"Current time: 2026-01-01 00:00:00 UTC"}
    [] function = "get_weather" ->
         {"Weather API error: Status 404", "Error fetching weather: timed out"}
    [] function = "search_arxiv" -> {"No papers found for query: x"}

CapabilityRaises(function) ==
  CASE function = "calculator" -> {"division by zero"}
    [] OTHER -> {}

\* str(e) of the TypeError Python raises when function(**kwargs) does not
\* bind (the interpreter's wording, which also names the argument, is
\* shortened here)
BindErrorMessage(function, kwargs) ==
  LET sig == Signature(function)
  IN  IF ~(Keys(kwargs) \subseteq sig.required \cup sig.optional)
      THEN function \o "() got an unexpected keyword argument"
      ELSE function \o "() missing required positional argument"

\* what self.function(**kwargs) does inside Tool.execute: it returns a text,
\* or it raises (at binding, or in the capability's body)
CallOutcomes(function, kwargs) ==
  IF Binds(function, kwargs)
  THEN {[kind |-> "return", text |-> r] : r \in CapabilityReturns(function)}
       \cup {[kind |-> "raise", text |-> m] : m \in CapabilityRaises(function)}
  ELSE {[kind |-> "raise", text |-> BindErrorMessage(function, kwargs)]}

\* an except clause that returns str(e) alone
ExecuteBareMessage(tool, outcome) == outcome.text

\* Tool.execute: str(result), or the text its except clause builds
Execute(tool, outcome) ==
  IF outcome.kind = "return" THEN outcome.text
  ELSE "Error executing " \o tool.name \o ": " \o outcome.text

\* tool.execute(**tool_input) raises before Tool.execute's try block is
\* entered: the argument after ** is no mapping, or it carries the key
\* "self", which collides with the method's own parameter
CallRaises(tool_input) ==
  IF tool_input.t # "dict" THEN TRUE ELSE "self" \in Keys(tool_input.v)

----------------------------------------------------------------------------
(* The completion call *)

FinalMarker == "Final Answer:"
ActionMarker == "Action:"
ActionInputMarker == "Action Input:"
ExhaustedMessage == "I couldn't complete the task within the iteration limit."

\* message content of a successful completion, as the model may write it
ModelTexts ==
  { "Final Answer: 42",
    "Thought: done\nFinal Answer:  4 \n",
    "Action: calculator\nAction Input: {\"expression\": \"2+2\"}\nFinal Answer: 4",
    "Final Answer: 4\nAction: calculator",
    "a Final Answer: b Final Answer: c",
    "The answer is 4.",
    " hello \n",
    "I will use Action: calculator",
    "Action:",
    "Action Input: {\"expression\": \"2+2\"}",
    "Thought: add\nAction: calculator\nAction Input: {\"expression\": \"2+2\"}",
    "Action: nope\nAction Input: {\"x\": 1}",
    "Action: Calculator",
    "Action: calculator\nAction Input: not-json",
    "Action: get_current_time",
    "Action: calculator\nAction Input: {\"x\": 1}",
    "Action: nope\nAction Input: 5",
    "Action: calculator\nAction Input: 5",
    "Action: calculator\nAction Input: [1]",
    "Action: get_current_time\nAction Input: \"UTC\"",
    "Action: get_current_time\nAction Input: {\"self\": 1}",
    "Thought: add\n  Action: calculator\n  Action Input: {\"expression\": \"2+2\"}",
    "Action Input: {\"q\": \"Action Input: x\"}",
    "Action: nope Action: x",
    "Action Input: null",
    "Action: calculator\nAction:\nAction Input: 5\nAction Input: {\"x\": 1}",
    "Action: nope\nAction: calculator\nAction Input: {\"x\": 1}\nAction Input: {\"expression\": \"2+2\"}",
    "Action: calculator" }

\* what requests.post can do: a 200 response carrying a message content, a
\* response with another status, or an exception (transport, timeout, a
\* body without the expected fields)
LLMOutcomes ==
  {[kind |-> "ok", status_code |-> "200", text |-> c] : c \in ModelTexts}
    \cup {[kind |-> "status", status_code |-> "500", text |-> "oops"]}
    \cup {[kind |-> "exception", status_code |-> "", text |-> "timed out"]}

\* _call_llm(messages): the string it returns
CallLLM(o) ==
  CASE o.kind = "status" ->
         "Error: API returned status " \o o.status_code \o ": " \o o.text
    [] o.kind = "ok" -> o.text
    [] o.kind = "exception" -> "Error calling LLM: " \o o.text

----------------------------------------------------------------------------
(* _parse_action *)

\* an except clause that drops the undecodable text
DecodedOrEmpty(input_str, decoded) ==
  IF decoded.ok THEN decoded.val ELSE EmptyDict

\* action_input after the try/except around json.loads(input_str)
DecodedOrWrapped(input_str, decoded) ==
  IF decoded.ok THEN decoded.val ELSE PyDict("input" :> PyStr(input_str))

ActionInputOf(input_str) == DecodedOrWrapped(input_str, JsonLoads(input_str))

RECURSIVE ParseLines(_, _, _, _)
ParseLines(lines, i, action, action_input) ==
  IF i > Len(lines) THEN [action |-> action, action_input |-> action_input]
  ELSE IF StartsWith(lines[i], ActionMarker) THEN
    ParseLines(lines, i + 1,
               PyStr(Strip(RemoveAll(lines[i], ActionMarker))), action_input)
  ELSE IF StartsWith(lines[i], ActionInputMarker) THEN
    ParseLines(lines, i + 1, action,
               ActionInputOf(Strip(RemoveAll(lines[i], ActionInputMarker))))
  ELSE ParseLines(lines, i + 1, action, action_input)

ParseAction(llm_response) ==
  ParseLines(SplitLines(Strip(llm_response)), 1, PyNone, PyNone)

\* the texts _call_llm can return
ResponseTexts == {CallLLM(o) : o \in LLMOutcomes}

\* _parse_action(response_text) for each of them, computed once
ParsedResponses == [text \in ResponseTexts |-> ParseAction(text)]

\* Python's truth value of an action name (None or a str)
Truthy(name) == name.t = "str" /\ name.v # ""

----------------------------------------------------------------------------
(* ReActAgent: the state of one agent and of one call of run *)

VARIABLES
  tools,                 \* self.tools
  max_iterations,        \* self.max_iterations
  conversation_history,  \* self.conversation_history
  pc,                    \* where run is: "loop", "have_response", "done", "raised"
  messages,              \* run's local transcript
  steps,                 \* run's local counter
  response_text,         \* the last completion text
  tool_name,             \* the name _parse_action returned last
  tool_input,            \* the input the last dispatch used
  result,                \* what run returned
  calls,                 \* number of _call_llm calls made by this run
  sent,                  \* the transcript given to the last _call_llm call
  llm,                   \* what the last completion request did
  executions,            \* number of times Tool.execute was entered
  capability,            \* what the capability did in the last Tool.execute
  runs                   \* the frames of the calls of run made side by side

vars == <<tools, max_iterations, conversation_history, pc, messages, steps,
          response_text, tool_name, tool_input, result, calls, sent, llm,
          executions, capability, runs>>

\* what the run has observed of its collaborators
observed == <<calls, sent, llm, executions, capability>>

agent == <<tools, max_iterations, conversation_history>>

\* the locals and the observations of the single call of run
single == <<pc, messages, steps, response_text, tool_name, tool_input, result,
            calls, sent, llm, executions, capability>>

Message(role, content) == [role |-> role, content |-> content]

\* the last message overwritten in place of an append
ReplaceLastMessage(transcript, message) ==
  [transcript EXCEPT ![Len(transcript)] = message]

\* the message appended twice
AppendMessageTwice(transcript, message) ==
  Append(Append(transcript, message), message)

\* messages.append(message)
AppendMessage(transcript, message) == Append(transcript, message)

\* _get_tool_descriptions()
RECURSIVE ToolDescriptionsFrom(_, _)
ToolDescriptionsFrom(registry, i) ==
  IF i > Len(ToolOrder) THEN ""
  ELSE (IF i > 1 THEN "\n" ELSE "")
         \o "- " \o ToolOrder[i] \o ": " \o registry[ToolOrder[i]].description
         \o ToolDescriptionsFrom(registry, i + 1)

SystemPrompt(registry) ==
  "You are a helpful ReAct agent.\n\nAvailable tools:\n"
    \o ToolDescriptionsFrom(registry, 1)
    \o "\n\nIf you mention a tool or say you can use a tool, you MUST immediately use it by emitting an Action and Action Input.\nNever describe tool usage without performing it.\n\nTo use a tool, respond with:\nThought: [your reasoning about what to do next]\nAction: [tool_name]\nAction Input: {\"param_name\": \"param_value\"}\n\nWhen you have enough information to answer the question, respond with:\nThought: [your reasoning]\nFinal Answer: [your complete answer to the user's question]\n\nAlways think step by step and use tools when you need information."

UserQueries == {"2+2?"}

\* two calls of run on the one agent, and the query each is given
RunIds == {1, 2}

QueryOf(r) == IF r = 1 THEN "2+2?" ELSE "What time is it?"

\* the frame of a call of run that has not been made yet; received and
\* outcomes record what the call was given: the completion texts, and per
\* pass that went on what the capability did ("none": no tool was entered)
IdleFrame ==
  [pc |-> "idle", messages |-> <<>>, steps |-> 0, response_text |-> "",
   result |-> PyNone, received |-> <<>>, outcomes |-> <<>>]

\* __init__, then the first statements of run(user_query) up to the loop
Init ==
  /\ tools = SetupTools
  /\ max_iterations \in 0..MaxBudget
  /\ conversation_history = <<>>
  /\ \E user_query \in UserQueries :
       messages = << Message("system", SystemPrompt(SetupTools)),
                     Message("user", user_query) >>
  /\ steps = 0
  /\ pc = "loop"
  /\ response_text = ""
  /\ tool_name = PyNone
  /\ tool_input = PyNone
  /\ result = PyNone
  /\ calls = 0
  /\ sent = <<>>
  /\ llm = "none"
  /\ executions = 0
  /\ capability = [kind |-> "none", text |-> ""]
  /\ runs = [r \in RunIds |-> IdleFrame]

\* while steps <= self.max_iterations
LoopConditionInclusive == steps <= max_iterations

\* while steps <= self.max_iterations + 1
LoopConditionTwoMore == steps <= max_iterations + 1

\* while steps < self.max_iterations
LoopCondition == steps < max_iterations

\* the loop is entered: _call_llm(messages), and its text is appended
CallModel ==
  /\ pc = "loop"
  /\ LoopCondition
  /\ \E o \in LLMOutcomes :
       /\ response_text' = CallLLM(o)
       /\ messages' = AppendMessage(messages, Message("assistant", CallLLM(o)))
       /\ llm' = o.kind
  /\ sent' = messages
  /\ calls' = calls + 1
  /\ pc' = "have_response"
  /\ UNCHANGED <<agent, runs, steps, tool_name, tool_input, result, executions,
                 capability>>

\* the loop condition is false: the fixed message is returned
Exhausted ==
  /\ pc = "loop"
  /\ ~LoopCondition
  /\ result' = PyStr(ExhaustedMessage)
  /\ pc' = "done"
  /\ UNCHANGED <<agent, runs, messages, steps, response_text, tool_name, tool_input,
                 observed>>

\* if "Final Answer:" in response_text
HasFinalAnswer(text) == Contains(text, FinalMarker)

FinalAnswer ==
  /\ pc = "have_response"
  /\ HasFinalAnswer(response_text)
  /\ result' = PyStr(Strip(SplitOnceAfter(response_text, FinalMarker)))
  /\ pc' = "done"
  /\ UNCHANGED <<agent, runs, messages, steps, response_text, tool_name, tool_input,
                 observed>>

\* return response_text.strip()
FallbackStripped(text) == Strip(text)

\* return response_text
FallbackResult(text) == text

\* if not tool_name: return response_text
Fallback ==
  /\ pc = "have_response"
  /\ ~HasFinalAnswer(response_text)
  /\ \E parsed \in {ParsedResponses[response_text]} :
       /\ ~Truthy(parsed.action)
       /\ tool_name' = parsed.action
       /\ tool_input' = parsed.action_input
  /\ result' = PyStr(FallbackResult(response_text))
  /\ pc' = "done"
  /\ UNCHANGED <<agent, runs, messages, steps, response_text, observed>>

\* tool_input left as parsed
InputKept(action_input) == action_input

\* tool_input after "if tool_input is None: tool_input = {}"
InputOrEmpty(action_input) ==
  IF action_input = PyNone THEN EmptyDict ELSE action_input

\* self.tools.get(tool_name) is a Tool
Registered(registry, name) == name \in DOMAIN registry

\* the observation without the tool's name
NotFoundUnnamed(name) == "Observation: Tool not found."

\* the sentinel text without the "Observation: " prefix
NotFoundUnprefixed(name) == "Tool '" \o name \o "' not found."

NotFoundObservation(name) == "Observation: Tool '" \o name \o "' not found."

\* steps += 2
NextStepsByTwo(n) == n + 2

\* the value steps has after a pass that did not return
NextSteps(n) == n + 1

\* self.tools.get(tool_name) finds nothing
ToolNotFound ==
  /\ pc = "have_response"
  /\ ~HasFinalAnswer(response_text)
  /\ \E parsed \in {ParsedResponses[response_text]} :
       /\ Truthy(parsed.action)
       /\ ~Registered(tools, parsed.action.v)
       /\ tool_name' = parsed.action
       /\ tool_input' = InputOrEmpty(parsed.action_input)
       /\ messages' = AppendMessage(messages,
                        Message("user", NotFoundObservation(parsed.action.v)))
  /\ steps' = NextSteps(steps)
  /\ pc' = "loop"
  /\ UNCHANGED <<agent, runs, response_text, result, observed>>

\* the tool's text appended as it is
ObservationBare(observation) == observation

\* f"Observation: {observation}"
Observation(observation) == "Observation: " \o observation

\* observation = tool.execute(**tool_input), appended as an Observation
ExecuteTool ==
  /\ pc = "have_response"
  /\ ~HasFinalAnswer(response_text)
  /\ \E parsed \in {ParsedResponses[response_text]} :
       /\ Truthy(parsed.action)
       /\ Registered(tools, parsed.action.v)
       /\ ~CallRaises(InputOrEmpty(parsed.action_input))
       /\ tool_name' = parsed.action
       /\ tool_input' = InputOrEmpty(parsed.action_input)
       /\ \E outcome \in CallOutcomes(tools[parsed.action.v].function,
                                        InputOrEmpty(parsed.action_input).v) :
            /\ capability' = outcome
            /\ messages' = AppendMessage(messages,
                 Message("user", Observation(Execute(tools[parsed.action.v], outcome))))
  /\ executions' = executions + 1
  /\ steps' = NextSteps(steps)
  /\ pc' = "loop"
  /\ UNCHANGED <<agent, runs, response_text, result, calls, sent, llm>>

\* tool.execute(**tool_input) raises TypeError at the call: nothing in run
\* catches it
ExecuteRaises ==
  /\ pc = "have_response"
  /\ ~HasFinalAnswer(response_text)
  /\ \E parsed \in {ParsedResponses[response_text]} :
       /\ Truthy(parsed.action)
       /\ Registered(tools, parsed.action.v)
       /\ CallRaises(InputOrEmpty(parsed.action_input))
       /\ tool_name' = parsed.action
       /\ tool_input' = InputOrEmpty(parsed.action_input)
  /\ pc' = "raised"
  /\ UNCHANGED <<agent, runs, messages, steps, response_text, result, observed>>

\* get_conversation_history(): the attribute set by __init__, which the CLI
\* command "history" prints
GetConversationHistory == conversation_history

Next ==
  \/ CallModel
  \/ Exhausted
  \/ FinalAnswer
  \/ Fallback
  \/ ToolNotFound
  \/ ExecuteTool
  \/ ExecuteRaises

Spec == Init /\ [][Next]_vars

\* run is one sequential call: a step that can be taken is taken
FairSpec == Spec /\ WF_vars(Next)

----------------------------------------------------------------------------
(* Two calls of run on the one agent, their steps interleaved.  Each call   *)
(* has its own frame (messages and steps are locals of run); self.tools and *)
(* self.max_iterations are read by both.                                     *)

\* what the completion endpoint answers in these calls
ConcurrentTexts ==
  { "Final Answer: 42",
    "The answer is 4.",
    "Action: Calculator",
    "Thought: add\nAction: calculator\nAction Input: {\"expression\": \"2+2\"}",
    "Action: calculator\nAction Input: 5" }

ConcurrentOutcomes == {o \in LLMOutcomes : o.kind = "ok" => o.text \in ConcurrentTexts}

\* the one transcript of the instance in place of the local of the call
SharedTranscript(frames, r) == frames[1].messages

\* messages, the local list of the call r of run
LocalTranscript(frames, r) == frames[r].messages

\* run(user_query) is entered: the transcript is built and steps = 0
StartRun(r) ==
  /\ runs[r].pc = "idle"
  /\ runs' = [runs EXCEPT ![r] =
       [@ EXCEPT !.pc = "loop",
                 !.messages = << Message("system", SystemPrompt(tools)),
                                 Message("user", QueryOf(r)) >>,
                 !.steps = 0]]
  /\ UNCHANGED <<agent, single>>

RunCallModel(r) ==
  /\ runs[r].pc = "loop"
  /\ runs[r].steps < max_iterations
  /\ \E o \in ConcurrentOutcomes :
       runs' = [runs EXCEPT ![r] =
         [@ EXCEPT !.pc = "have_response",
                   !.response_text = CallLLM(o),
                   !.messages = AppendMessage(LocalTranscript(runs, r),
                                  Message("assistant", CallLLM(o))),
                   !.received = Append(@, CallLLM(o))]]
  /\ UNCHANGED <<agent, single>>

RunExhausted(r) ==
  /\ runs[r].pc = "loop"
  /\ ~(runs[r].steps < max_iterations)
  /\ runs' = [runs EXCEPT ![r] =
       [@ EXCEPT !.pc = "done", !.result = PyStr(ExhaustedMessage)]]
  /\ UNCHANGED <<agent, single>>

RunFinalAnswer(r) ==
  /\ runs[r].pc = "have_response"
  /\ HasFinalAnswer(runs[r].response_text)
  /\ runs' = [runs EXCEPT ![r] =
       [@ EXCEPT !.pc = "done",
                 !.result = PyStr(Strip(SplitOnceAfter(runs[r].response_text,
                                                       FinalMarker)))]]
  /\ UNCHANGED <<agent, single>>

RunFallback(r) ==
  /\ runs[r].pc = "have_response"
  /\ ~HasFinalAnswer(runs[r].response_text)
  /\ ~Truthy(ParsedResponses[runs[r].response_text].action)
  /\ runs' = [runs EXCEPT ![r] =
       [@ EXCEPT !.pc = "done",
                 !.result = PyStr(FallbackResult(runs[r].response_text))]]
  /\ UNCHANGED <<agent, single>>

RunToolNotFound(r) ==
  /\ runs[r].pc = "have_response"
  /\ ~HasFinalAnswer(runs[r].response_text)
  /\ \E parsed \in {ParsedResponses[runs[r].response_text]} :
       /\ Truthy(parsed.action)
       /\ ~Registered(tools, parsed.action.v)
       /\ runs' = [runs EXCEPT ![r] =
            [@ EXCEPT !.pc = "loop",
                      !.messages = AppendMessage(LocalTranscript(runs, r),
                         Message("user", NotFoundObservation(parsed.action.v))),
                      !.steps = NextSteps(@),
                      !.outcomes = Append(@, [kind |-> "none", text |-> ""])]]
  /\ UNCHANGED <<agent, single>>

RunExecuteTool(r) ==
  /\ runs[r].pc = "have_response"
  /\ ~HasFinalAnswer(runs[r].response_text)
  /\ \E parsed \in {ParsedResponses[runs[r].response_text]} :
       /\ Truthy(parsed.action)
       /\ Registered(tools, parsed.action.v)
       /\ ~CallRaises(InputOrEmpty(parsed.action_input))
       /\ \E outcome \in CallOutcomes(tools[parsed.action.v].function,
                                        InputOrEmpty(parsed.action_input).v) :
            runs' = [runs EXCEPT ![r] =
              [@ EXCEPT !.pc = "loop",
                        !.messages = AppendMessage(LocalTranscript(runs, r),
                           Message("user",
                             Observation(Execute(tools[parsed.action.v], outcome)))),
                        !.steps = NextSteps(@),
                        !.outcomes = Append(@, outcome)]]
  /\ UNCHANGED <<agent, single>>

RunExecuteRaises(r) ==
  /\ runs[r].pc = "have_response"
  /\ ~HasFinalAnswer(runs[r].response_text)
  /\ \E parsed \in {ParsedResponses[runs[r].response_text]} :
       /\ Truthy(parsed.action)
       /\ Registered(tools, parsed.action.v)
       /\ CallRaises(InputOrEmpty(parsed.action_input))
  /\ runs' = [runs EXCEPT ![r] = [@ EXCEPT !.pc = "raised"]]
  /\ UNCHANGED <<agent, single>>

ConcurrentNext ==
  \E r \in RunIds :
    \/ StartRun(r)
    \/ RunCallModel(r)
    \/ RunExhausted(r)
    \/ RunFinalAnswer(r)
    \/ RunFallback(r)
    \/ RunToolNotFound(r)
    \/ RunExecuteTool(r)
    \/ RunExecuteRaises(r)

ConcurrentSpec == Init /\ [][ConcurrentNext]_vars

----------------------------------------------------------------------------
(* Properties *)

Terminated == pc \in {"done", "raised"}

LastMessage == messages[Len(messages)]

IsPrefix(a, b) == Len(a) <= Len(b) /\ SubSeq(b, 1, Len(a)) = a

Rest(text, i) == IF i > Len(text) THEN "" ELSE SubSeq(text, i, Len(text))

MarkerOccurs(text) == \E i \in 1..Len(text) : StartsWithAt(text, FinalMarker, i)

\* r is t without its leading and trailing whitespace
IsTrimOf(r, t) ==
  \E a \in 1..(Len(t) + 1), b \in 0..Len(t) :
    /\ \A k \in 1..(a - 1) : Ch(t, k) \in PyWhitespace
    /\ \A k \in (b + 1)..Len(t) : Ch(t, k) \in PyWhitespace
    /\ a <= b => Ch(t, a) \notin PyWhitespace /\ Ch(t, b) \notin PyWhitespace
    /\ r = IF a > b THEN "" ELSE SubSeq(t, a, b)

\* r is the text after the first "Final Answer:" of text, trimmed
IsAnswerAfterFirstMarker(text, r) ==
  \E i \in 1..Len(text) :
    /\ StartsWithAt(text, FinalMarker, i)
    /\ \A k \in 1..(i - 1) : ~StartsWithAt(text, FinalMarker, k)
    /\ IsTrimOf(r, Rest(text, i + Len(FinalMarker)))

\* the trimmed text of the last "Action Input:" line of a response
LastInputText(text) ==
  LET lines == SplitLines(Strip(text))
      marked == {i \in 1..Len(lines) : StartsWith(lines[i], ActionInputMarker)}
      last == CHOOSE i \in marked : \A m \in marked : m <= i
  IN  Strip(RemoveAll(lines[last], ActionInputMarker))

HasInputLine(text) ==
  \E i \in 1..Len(SplitLines(Strip(text))) :
    StartsWith(SplitLines(Strip(text))[i], ActionInputMarker)

\* every response of the run so far has no final marker and asks for a tool
\* that is not registered
OnlyUnknownToolRequests ==
  \A i \in 1..Len(messages) :
    messages[i].role = "assistant" =>
      /\ ~MarkerOccurs(messages[i].content)
      /\ Truthy(ParseAction(messages[i].content).action)
      /\ ParseAction(messages[i].content).action.v \notin DOMAIN tools

\* C1: run terminates, and it never makes more than max_iterations + 1
\* completion calls.
C1_Terminates ==
  /\ <>Terminated
  /\ [](calls <= max_iterations + 1)

C1_Witness ==
  /\ pc = "done"
  /\ result = PyStr(ExhaustedMessage)
  /\ calls = max_iterations
  /\ calls >= 2

\* C2: run returns a string and never lets an exception out, whatever the
\* model responses are.
C2_NeverRaises == pc # "raised"

\* C3: a response that contains "Final Answer:" ends the run in that pass
\* with the trimmed text after the first marker; no tool runs and nothing is
\* appended for it.
C3_FinalAnswerShortCircuits ==
  [][ (pc = "have_response" /\ MarkerOccurs(response_text)) =>
        /\ pc' = "done"
        /\ result'.t = "str"
        /\ IsAnswerAfterFirstMarker(response_text, result'.v)
        /\ messages' = messages
        /\ executions' = executions
        /\ steps' = steps ]_vars

C3_Witness ==
  /\ pc = "done"
  /\ response_text =
       "Action: calculator\nAction Input: {\"expression\": \"2+2\"}\nFinal Answer: 4"
  /\ result = PyStr("4")
  /\ executions = 0
  /\ LastMessage = Message("assistant", response_text)

\* C4: a response with no final marker and no recognized action name ends
\* the run in that pass; run returns the response text unchanged, runs no
\* tool and appends nothing.
C4_FallbackReturnsRawText ==
  [][ (/\ pc = "have_response"
       /\ ~MarkerOccurs(response_text)
       /\ ~Truthy(ParseAction(response_text).action)) =>
        /\ pc' = "done"
        /\ result' = PyStr(response_text)
        /\ messages' = messages
        /\ executions' = executions ]_vars

C4_Witness ==
  /\ pc = "done"
  /\ response_text = " hello \n"
  /\ result = PyStr(" hello \n")
  /\ LastMessage.role = "assistant"

\* C5: an action name that is no registered tool name (compared exactly)
\* raises nothing: "Observation: Tool '<name>' not found." is appended as a
\* user message, the counter goes up by one, and the next completion call
\* can be made whenever the budget is not used up.
C5_UnknownToolObserved ==
  /\ [][ (/\ pc = "have_response"
          /\ ~MarkerOccurs(response_text)
          /\ Truthy(ParseAction(response_text).action)
          /\ ParseAction(response_text).action.v \notin DOMAIN tools) =>
           /\ pc' = "loop"
           /\ messages' = Append(messages,
                [role |-> "user",
                 content |-> "Observation: Tool '"
                               \o ParseAction(response_text).action.v
                               \o "' not found."])
           /\ steps' = steps + 1
           /\ executions' = executions ]_vars
  /\ []((pc = "loop" /\ steps < max_iterations) => ENABLED CallModel)

C5_Witness ==
  /\ calls = 2
  /\ messages[3] = Message("assistant", "Action: Calculator")
  /\ messages[4] = Message("user", "Observation: Tool 'Calculator' not found.")
  /\ steps = 1

\* C6: when the capability of a registered tool raises, the observation
\* "Error executing <name>: <message>" is appended as a user-role
\* "Observation: " message, the counter goes up by one and the loop goes on.
C6_ToolFailureObserved ==
  /\ [][ (executions' = executions + 1 /\ capability'.kind = "raise") =>
           /\ pc' = "loop"
           /\ messages' = Append(messages,
                [role |-> "user",
                 content |-> "Observation: Error executing " \o tool_name'.v
                               \o ": " \o capability'.text])
           /\ steps' = steps + 1 ]_vars
  /\ []((pc = "loop" /\ steps < max_iterations) => ENABLED CallModel)

C6_Witness ==
  /\ calls = 2
  /\ capability = [kind |-> "raise", text |-> "division by zero"]
  /\ messages[4] =
       Message("user", "Observation: Error executing calculator: division by zero")
  /\ steps = 1

\* C7: a run whose every response asks for an unregistered tool and never
\* has a final marker returns the fixed message after exactly
\* max_iterations completion calls.
C7_BudgetExhaustion ==
  (pc = "done" /\ OnlyUnknownToolRequests) =>
    (result = PyStr(ExhaustedMessage) /\ calls = max_iterations)

C7_Witness ==
  /\ pc = "done"
  /\ OnlyUnknownToolRequests
  /\ calls = max_iterations
  /\ calls >= 2

\* C8: the transcript only grows by appends: each completion text is
\* appended as an assistant message in the step that receives it, no
\* message is changed or removed, and each completion call is given a
\* transcript that strictly extends the one given to the call before.
C8_TranscriptAppendOnly ==
  [][ /\ IsPrefix(messages, messages')
      /\ calls' # calls =>
           /\ calls' = calls + 1
           /\ sent' = messages
           /\ messages' = Append(messages, Message("assistant", response_text'))
           /\ calls > 0 => (IsPrefix(sent, sent') /\ Len(sent) < Len(sent')) ]_vars

C8_Witness ==
  /\ calls = 2
  /\ Len(sent) = 4
  /\ Len(messages) = 5
  /\ MarkerOccurs(LastMessage.content)

\* C9: a failed completion call is turned into a string and the loop goes
\* on: the run does not end because of that failure.
C9_FailureDoesNotEndRun ==
  Terminated => llm \notin {"status", "exception"}

\* C10: an "Action Input:" text that is not JSON becomes {"input": <text>};
\* with a recognized action name the pass goes on to dispatch and appends an
\* Observation.
C10_MalformedInputWrapped ==
  [][ (/\ pc = "have_response"
       /\ ~MarkerOccurs(response_text)
       /\ Truthy(ParseAction(response_text).action)
       /\ HasInputLine(response_text)
       /\ ~JsonLoads(LastInputText(response_text)).ok) =>
        /\ tool_input' = PyDict("input" :> PyStr(LastInputText(response_text)))
        /\ pc' = "loop"
        /\ Len(messages') = Len(messages) + 1
        /\ messages'[Len(messages')].role = "user"
        /\ StartsWith(messages'[Len(messages')].content, "Observation: ") ]_vars

C10_Witness ==
  /\ pc = "loop"
  /\ response_text = "Action: calculator\nAction Input: not-json"
  /\ tool_input = PyDict("input" :> PyStr("not-json"))
  /\ executions = 1
  /\ StartsWith(LastMessage.content, "Observation: Error executing calculator: ")

----------------------------------------------------------------------------
(* Two calls of run *)

\* the name the response of pass k of a call asked for
OwnToolName(frame, k) == ParsedResponses[frame.received[k]].action.v

\* the observation of pass k of a call, from what that call alone was given
OwnObservation(frame, k) ==
  IF frame.outcomes[k].kind = "none"
  THEN "Observation: Tool '" \o OwnToolName(frame, k) \o "' not found."
  ELSE IF frame.outcomes[k].kind = "return"
  THEN "Observation: " \o frame.outcomes[k].text
  ELSE "Observation: Error executing " \o OwnToolName(frame, k) \o ": "
         \o frame.outcomes[k].text

\* message i of the transcript a call builds when it runs alone
OwnMessage(r, frame, i) ==
  IF i = 1 THEN [role |-> "system", content |-> SystemPrompt(SetupTools)]
  ELSE IF i = 2 THEN [role |-> "user", content |-> QueryOf(r)]
  ELSE IF i % 2 = 1
  THEN [role |-> "assistant", content |-> frame.received[(i - 1) \div 2]]
  ELSE [role |-> "user", content |-> OwnObservation(frame, (i - 2) \div 2)]

HasOwnTranscript(r, frame) ==
  /\ Len(frame.messages) = 2 + Len(frame.received) + Len(frame.outcomes)
  /\ \A i \in 1..Len(frame.messages) : frame.messages[i] = OwnMessage(r, frame, i)

\* the passes that went on had no final marker and named a tool
PassesWentOn(frame) ==
  \A k \in 1..Len(frame.outcomes) :
    /\ ~MarkerOccurs(frame.received[k])
    /\ Truthy(ParsedResponses[frame.received[k]].action)

\* the result of a call that ran alone on the same responses and outcomes
HasOwnResult(frame, budget) ==
  IF Len(frame.received) > Len(frame.outcomes)
  THEN IF MarkerOccurs(frame.response_text)
       THEN /\ frame.result.t = "str"
            /\ IsAnswerAfterFirstMarker(frame.response_text, frame.result.v)
       ELSE /\ ~Truthy(ParsedResponses[frame.response_text].action)
            /\ frame.result = PyStr(frame.response_text)
  ELSE /\ frame.result = PyStr(ExhaustedMessage)
       /\ Len(frame.outcomes) = budget

\* C11: the transcript and the counter are local to one call of run: with
\* two calls on one agent, one after the other or interleaved, each call's
\* transcript holds only its own system prompt, query, responses and
\* observations, its counter counts its own passes from 0, and it returns
\* what it returns alone on the same responses and tool results.
C11_RunsAreIndependent ==
  \A r \in RunIds :
    runs[r].pc # "idle" =>
      /\ HasOwnTranscript(r, runs[r])
      /\ runs[r].steps = Len(runs[r].outcomes)
      /\ Len(runs[r].received) \in {runs[r].steps, runs[r].steps + 1}
      /\ runs[r].steps <= max_iterations
      /\ PassesWentOn(runs[r])
      /\ Len(runs[r].received) > 0 =>
           runs[r].response_text = runs[r].received[Len(runs[r].received)]
      /\ runs[r].pc = "done" => HasOwnResult(runs[r], max_iterations)

C11_Witness ==
  /\ runs[1].pc = "done"
  /\ runs[1].result = PyStr("42")
  /\ runs[1].steps = 1
  /\ runs[1].outcomes[1].kind = "raise"
  /\ runs[2].pc = "have_response"
  /\ runs[2].steps = 1
  /\ runs[2].outcomes[1].kind = "none"
  /\ runs[2].messages[2].content = "What time is it?"

----------------------------------------------------------------------------
(* The action parser, seen through run: after a pass that parsed the       *)
(* response, tool_name is the name _parse_action returned and tool_input   *)
(* its input (with {} for None once a tool is named).                       *)

\* the last response has no final marker and has been parsed
ParsedLast == pc # "have_response" /\ calls > 0 /\ ~MarkerOccurs(response_text)

LastIn(S) == CHOOSE i \in S : \A m \in S : m <= i

ResponseLines(text) == SplitLines(Strip(text))

\* what run keeps of a parsed input
AsRunKeeps(name, input) ==
  IF Truthy(name) /\ input = PyNone THEN EmptyDict ELSE input

\* the lines that start with the marker once trimmed
TrimmedLineStarts(text, marker) ==
  {i \in 1..Len(ResponseLines(text)) :
     StartsWith(Strip(ResponseLines(text)[i]), marker)}

NameByTrimmedLines(text) ==
  IF TrimmedLineStarts(text, "Action:") = {} THEN PyNone
  ELSE PyStr(Strip(RemoveAll(
         ResponseLines(text)[LastIn(TrimmedLineStarts(text, "Action:"))],
         "Action:")))

InputByTrimmedLines(text) ==
  IF TrimmedLineStarts(text, "Action Input:") = {} THEN PyNone
  ELSE ActionInputOf(Strip(RemoveAll(
         ResponseLines(text)[LastIn(TrimmedLineStarts(text, "Action Input:"))],
         "Action Input:")))

\* C12: the parser matches a marker as the prefix of each trimmed line:
\* every line whose first text after leading whitespace is "Action:"
\* ("Action Input:") sets the name (the input), indented lines and lines
\* after the first included; a line with the marker after other text does
\* not match.
C12_TrimmedLinePrefix ==
  ParsedLast =>
    /\ tool_name = NameByTrimmedLines(response_text)
    /\ tool_input = AsRunKeeps(tool_name, InputByTrimmedLines(response_text))

\* the lines that start with the marker as the loop reads them
LineStarts(text, marker) ==
  {i \in 1..Len(ResponseLines(text)) : StartsWith(ResponseLines(text)[i], marker)}

\* the rest of a line after its leading marker, trimmed
RemainderAfter(line, marker) == Strip(Rest(line, Len(marker) + 1))

NameByRemainder(text) ==
  IF LineStarts(text, "Action:") = {} THEN PyNone
  ELSE PyStr(RemainderAfter(
         ResponseLines(text)[LastIn(LineStarts(text, "Action:"))], "Action:"))

InputByRemainder(text) ==
  IF LineStarts(text, "Action Input:") = {} THEN PyNone
  ELSE ActionInputOf(RemainderAfter(
         ResponseLines(text)[LastIn(LineStarts(text, "Action Input:"))],
         "Action Input:"))

\* C13: for a line beginning with "Action:" the name is the rest of the
\* line after that leading prefix, trimmed, and for a line beginning with
\* "Action Input:" the candidate input is the rest after that prefix,
\* trimmed, also when the marker text occurs again later in the line.
C13_RemainderAfterPrefix ==
  ParsedLast =>
    /\ tool_name = NameByRemainder(response_text)
    /\ tool_input = AsRunKeeps(tool_name, InputByRemainder(response_text))

NameByLastLine(text) ==
  IF LineStarts(text, "Action:") = {} THEN PyNone
  ELSE PyStr(Strip(RemoveAll(
         ResponseLines(text)[LastIn(LineStarts(text, "Action:"))], "Action:")))

InputByLastLine(text) ==
  IF LineStarts(text, "Action Input:") = {} THEN PyNone
  ELSE ActionInputOf(Strip(RemoveAll(
         ResponseLines(text)[LastIn(LineStarts(text, "Action Input:"))],
         "Action Input:")))

\* C14: last one wins: the name comes from the last "Action:" line and the
\* input from the last "Action Input:" line, each marker on its own; the
\* name (the input) is absent exactly when no line carries its marker.
C14_LastOneWins ==
  ParsedLast =>
    /\ tool_name = NameByLastLine(response_text)
    /\ tool_input = AsRunKeeps(tool_name, InputByLastLine(response_text))
    /\ (tool_name = PyNone) <=> (LineStarts(response_text, "Action:") = {})
    /\ ~Truthy(tool_name) =>
         ((tool_input = PyNone)
            <=> (LineStarts(response_text, "Action Input:") = {}))

----------------------------------------------------------------------------
(* Dispatch, the counter and the shape of the transcript *)

IsObservation(message) ==
  message.role = "user" /\ StartsWith(message.content, "Observation: ")

\* the Observation messages after the system prompt and the query
ObservationCount(transcript) ==
  Cardinality({i \in 3..Len(transcript) : IsObservation(transcript[i])})

\* C15: a response that names a registered tool and has no "Action Input:"
\* line invokes the tool with an empty mapping: the pass is no error, and
\* the tool's result, or its caught failure text, is appended as the
\* Observation.
C15_MissingInputIsEmptyMapping ==
  [][ (/\ pc = "have_response"
       /\ ~MarkerOccurs(response_text)
       /\ Truthy(ParseAction(response_text).action)
       /\ ParseAction(response_text).action.v \in DOMAIN tools
       /\ LineStarts(response_text, "Action Input:") = {}) =>
        /\ tool_input' = [t |-> "dict", v |-> <<>>]
        /\ executions' = executions + 1
        /\ pc' = "loop"
        /\ steps' = steps + 1
        /\ messages' = Append(messages,
             [role |-> "user",
              content |-> "Observation: "
                 \o (IF capability'.kind = "return" THEN capability'.text
                     ELSE "Error executing " \o tool_name'.v \o ": "
                            \o capability'.text)]) ]_vars

C15_Witness ==
  /\ steps = 2
  /\ executions = 2
  /\ messages[3] = Message("assistant", "Action: get_current_time")
  /\ messages[4] =
       Message("user", "Observation: Current time: 2026-01-01 00:00:00 UTC")
  /\ messages[5] = Message("assistant", "Action: calculator")
  /\ StartsWith(messages[6].content, "Observation: Error executing calculator: ")
  /\ tool_input = EmptyDict

\* C16: at most one tool per model turn: between two consecutive completion
\* calls exactly one Observation is appended and at most one capability is
\* executed, and the step that enters a tool also appends its observation,
\* so no invocation starts before the one before has returned.
C16_OneToolPerTurn ==
  /\ [](executions <= ObservationCount(messages))
  /\ [][ executions' # executions =>
           /\ executions' = executions + 1
           /\ messages' = Append(messages, messages'[Len(messages')])
           /\ IsObservation(messages'[Len(messages')]) ]_vars
  /\ [][ (calls' # calls /\ calls > 0) =>
           /\ Len(messages) = Len(sent) + 2
           /\ SubSeq(messages, 1, Len(sent)) = sent
           /\ messages[Len(sent) + 1].role = "assistant"
           /\ IsObservation(messages[Len(sent) + 2]) ]_vars

C16_Witness ==
  /\ calls = 2
  /\ executions = 1
  /\ pc = "have_response"
  /\ Len(messages) = 5
  /\ messages[4] = Message("user", "Observation: The result of 2+2 is 4")

\* C17: the counter starts at 0, goes up by exactly one on each pass that
\* does not return (tool found or not found) and in no other step, never
\* exceeds max_iterations, and always equals the number of Observation
\* messages appended so far.
C17_CounterCountsObservations ==
  /\ steps = 0
  /\ [](steps <= max_iterations /\ steps = ObservationCount(messages))
  /\ [][ steps' = IF pc = "have_response" /\ pc' = "loop" THEN steps + 1
                  ELSE steps ]_vars

C17_Witness ==
  /\ pc = "done"
  /\ steps = 2
  /\ max_iterations = 2
  /\ ObservationCount(messages) = 2
  /\ executions = 1

\* C18: a run that ends through a final answer or the fallback has made one
\* completion call more than it appended Observations; a run that ends
\* through budget exhaustion has made as many calls as Observations, and
\* its last Observation was given to no completion call.
C18_CallsAndObservations ==
  [][ (pc # "done" /\ pc' = "done") =>
        IF pc = "have_response"
        THEN calls' = ObservationCount(messages') + 1
        ELSE /\ calls' = ObservationCount(messages')
             /\ calls' > 0 =>
                  /\ IsObservation(messages'[Len(messages')])
                  /\ Len(sent') = Len(messages') - 2 ]_vars

C18_Witness ==
  /\ pc = "done"
  /\ result = PyStr("4")
  /\ calls = 2
  /\ executions = 1
  /\ ObservationCount(messages) = 1
  /\ messages[4] = Message("user", "Observation: The result of 2+2 is 4")

\* C19: after run has processed a query, get_conversation_history returns
\* the transcript of that run.
C19_HistoryIsTranscript ==
  pc = "done" => GetConversationHistory = messages

\* C20: the transcript is one system message, one user message with the
\* query, then assistant messages and "Observation: " user messages in
\* strict alternation; run changes neither the tool registry nor
\* max_iterations.
C20_TranscriptShapeAndFrame ==
  /\ [](/\ Len(messages) >= 2
        /\ messages[1].role = "system"
        /\ messages[2].role = "user"
        /\ messages[2].content \in UserQueries
        /\ \A i \in 3..Len(messages) :
             IF i % 2 = 1 THEN messages[i].role = "assistant"
             ELSE IsObservation(messages[i])
        /\ DOMAIN tools =
             {"calculator", "get_current_time", "get_weather", "search_arxiv"})
  /\ [][tools' = tools /\ max_iterations' = max_iterations]_vars

C20_Witness ==
  /\ pc = "done"
  /\ Len(messages) = 6
  /\ messages[3].role = "assistant"
  /\ messages[6].content = "Observation: Tool 'nope' not found."
  /\ executions = 1

====
